---- MODULE Spec2Model ----
(***************************************************************************)
(* msh: a line-oriented command interpreter (src/msh/msh.c).               *)
(* The model follows main(): startup and mode selection, the read loop     *)
(* (fgets, newline strip, strsep tokenizer), the built-ins exit/quit/cd,   *)
(* path resolution with access(), fork, the child's redirection scan and   *)
(* execv, and the parent's waitpid and per-iteration frees.                *)
(* Strings are sequences of one-character strings; a token is a non-empty  *)
(* sequence of characters.                                                 *)
(***************************************************************************)
EXTENDS Integers, Sequences, FiniteSets, TLC

\* ---------------------------------------------------------------- bounds
\* number of physical input lines the input source may supply
MaxReads == 2
\* size of the process table seen by fork()
MaxPid == 2
\* number of descriptor slots modelled per process
FdTableSize == 6

\* ------------------------------------------------------ program constants
MAX_COMMAND_SIZE == 255
MAX_NUM_ARGUMENTS == 12
MAX_PATH == 4096
STDOUT_FILENO == 1
STDERR_FILENO == 2

WHITESPACE == {" ", "\t", "\n"}
error_message == <<"An error has occurred\n">>

\* the NULL pointer in a token slot; a slot never written in this iteration
NULL == <<>>
Uninit == <<"?">>

EXIT == <<"e", "x", "i", "t">>
QUIT == <<"q", "u", "i", "t">>
CD == <<"c", "d">>
GT == <<">">>

path == <<  <<"/", "b", "i", "n", "/">>,
            <<"/", "u", "s", "r", "/", "b", "i", "n", "/">>,
            <<"/", "u", "s", "r", "/", "l", "o", "c", "a", "l", "/", "b", "i", "n", "/">>,
            <<".", "/">>  >>

Min(a, b) == IF a < b THEN a ELSE b

\* ------------------------------------------------------------ environment
\* directories chdir() accepts
ValidDirs == { <<"/", "d">>, <<"/", "e">> }
InitialDir == <<"/">>

RECURSIVE Join(_, _)
Join(words, sep) ==
  IF Len(words) = 0 THEN <<>>
  ELSE IF Len(words) = 1 THEN words[1]
  ELSE words[1] \o sep \o Join(Tail(words), sep)

Rep(c, n) == [i \in 1..n |-> c]
SP == <<" ">>
TAB == <<"\t">>
LS == <<"l", "s">>
F == <<"f">>
G == <<"g">>
Letters == <<"b", "c", "d", "e", "h", "i", "j", "k", "m", "n", "o", "p", "r">>
Arg(i) == <<"a", Letters[i]>>
Args(n) == [i \in 1..n |-> Arg(i)]

\* the physical lines (without their newline) the input source may hold
InputLines ==
  { <<>>, SP \o TAB \o SP,
    EXIT, QUIT, SP \o EXIT \o TAB, Join(<<EXIT, F>>, SP), Join(<<QUIT, F, G>>, SP),
    EXIT \o <<"s">>,
    CD, Join(<<CD, <<"/", "d">> >>, SP), Join(<<CD, <<"/", "e">> >>, TAB \o SP),
    Join(<<CD, <<"/", "x">> >>, SP), Join(<<CD, <<"/", "d">>, <<"/", "e">> >>, SP),
    LS, Join(<<LS, <<"-", "l">> >>, SP \o SP),
    Join(<<LS, GT, F>>, SP), Join(<<LS, <<"-", "l">>, GT, F>>, SP),
    Join(<<LS, GT>>, SP), Join(<<LS, GT, F, G>>, SP),
    Join(<<LS, GT, F, GT, G>>, SP), Join(<<LS, GT, GT>>, SP),
    Join(<<LS, GT, GT, F>>, SP), Join(<<GT, F>>, SP),
    Join(<<LS>> \o Args(10), SP), Join(<<LS>> \o Args(11), SP),
    Join(<<LS>> \o Args(12), TAB \o SP) \o SP,
    Join(<<LS>> \o Args(8) \o <<GT, F>>, SP),
    Join(<<LS>> \o Args(9) \o <<GT, F>>, SP),
    Join(<<LS>> \o Args(10) \o <<GT, F>>, SP),
    LS \o SP \o Rep("a", 250) \o SP \o QUIT,
    LS \o SP \o Rep("a", 249) \o SP \o EXIT }

\* ------------------------------------------------------------------ state
VARIABLES
  pc,              \* position of the interpreter in main()
  exit_code,       \* -1 while running, else the process exit status
  is_batch_mode,
  fds,             \* the interpreter's descriptor table
  pending,         \* unread bytes of the current physical line, newline included
  iter,            \* number of fgets calls that returned data
  command_string,
  token,           \* the 12-slot token array
  token_count,
  heap,            \* live allocations: <<iteration, slot>>
  cwd,             \* the interpreter's working directory
  exec_at,         \* indices of path[] where access(X_OK) succeeds for this command
  cmd_path,
  child_pid,
  children,        \* process table: pid -> child record
  files,           \* names of the files created by open(O_CREAT)
  log              \* system calls made during the current iteration

vars == <<pc, exit_code, is_batch_mode, fds, pending, iter, command_string,
          token, token_count, heap, cwd, exec_at, cmd_path, child_pid,
          children, files, log>>

Running == -1
Parent == 0

\* descriptor targets
Closed == [kind |-> "closed", name |-> <<>>]
Tty == [kind |-> "tty", name |-> <<>>]
BatchFile == [kind |-> "batch", name |-> <<>>]
File(n) == [kind |-> "file", name |-> n]

Ev(who, op, arg, tgt, res) == [who |-> who, op |-> op, arg |-> arg, tgt |-> tgt, res |-> res]
ErrWriteVaried(who, fdt) ==
  Ev(who, "write", <<"No such file or directory\n">>, fdt[STDERR_FILENO], 0)
ErrWrite(who, fdt) == Ev(who, "write", error_message, fdt[STDERR_FILENO], 0)

\* heap slots
HeadSlot == -1
CommandStringAlloc == <<0, -2>>

NoChild == [state |-> "none", token |-> [i \in 0..(MAX_NUM_ARGUMENTS - 1) |-> Uninit],
            cmd_path |-> <<>>, fds |-> [i \in 0..(FdTableSize - 1) |-> Closed],
            cwd |-> <<>>, argv |-> <<>>, execv |-> "no", status |-> Running,
            reads |-> {}]

\* ------------------------------------------------------------ line reading
\* index of the first element of s that is in set D, or 0
FirstIn(s, D) ==
  LET hits == { i \in 1..Len(s) : s[i] \in D }
  IN IF hits = {} THEN 0 ELSE CHOOSE i \in hits : \A j \in hits : i <= j

\* fgets(command_string, MAX_COMMAND_SIZE, stream): at most MAX_COMMAND_SIZE-1
\* bytes, stopping after a newline
FgetsTruncating(stream) ==
  LET nl == FirstIn(stream, {"\n"})
      lim == MAX_COMMAND_SIZE - 1
      take == IF nl # 0 /\ nl <= lim THEN nl ELSE Min(Len(stream), lim)
  IN [buf |-> SubSeq(stream, 1, take), rest |-> <<>>]
Fgets(stream) ==
  LET nl == FirstIn(stream, {"\n"})
      lim == MAX_COMMAND_SIZE - 1
      take == IF nl # 0 /\ nl <= lim THEN nl ELSE Min(Len(stream), lim)
  IN [buf |-> SubSeq(stream, 1, take), rest |-> SubSeq(stream, take + 1, Len(stream))]

\* command_string[strcspn(command_string, "\n")] = '\0'
StripNewline(buf) ==
  LET nl == FirstIn(buf, {"\n"})
  IN IF nl = 0 THEN buf ELSE SubSeq(buf, 1, nl - 1)

\* -------------------------------------------------------------- tokenizer
NullStr == [null |-> TRUE, str |-> <<>>]
Str(s) == [null |-> FALSE, str |-> s]

\* strsep(&working_string, WHITESPACE)
Strsep(ws) ==
  IF ws.null THEN [arg |-> NullStr, ws |-> ws]
  ELSE LET d == FirstIn(ws.str, WHITESPACE)
       IN IF d = 0 THEN [arg |-> Str(ws.str), ws |-> NullStr]
          ELSE [arg |-> Str(SubSeq(ws.str, 1, d - 1)),
                ws |-> Str(SubSeq(ws.str, d + 1, Len(ws.str)))]

\* strlen(argument_pointer) > 0
KeepFragmentAlways(arg) == TRUE
KeepFragment(arg) == Len(arg) > 0

\* token_count < MAX_NUM_ARGUMENTS - 1
TokenRoomOffByOne(count) == count < MAX_NUM_ARGUMENTS
TokenRoom(count) == count < MAX_NUM_ARGUMENTS - 1

\* the strsep loop; toks holds token[0..token_count-1]
RECURSIVE TokLoop(_, _)
TokLoop(ws, toks) ==
  LET r == Strsep(ws)
  IN IF r.arg.null \/ ~TokenRoom(Len(toks)) THEN toks
     ELSE TokLoop(r.ws, IF KeepFragment(r.arg.str) THEN Append(toks, r.arg.str) ELSE toks)

\* the token array after the loop and the sentinel write
TokenArray(toks) ==
  [i \in 0..(MAX_NUM_ARGUMENTS - 1) |->
     IF i < Len(toks) THEN toks[i + 1]
     ELSE IF i = Len(toks) THEN NULL
     ELSE Uninit]

\* token[0..token_count-1] as a sequence
Toks == [i \in 1..token_count |-> token[i - 1]]

\* ------------------------------------------------------------------- heap
TokenAllocs(it, count) == { <<it, i>> : i \in 0..(count - 1) }
FreeHead(h, it) == h \ { <<it, HeadSlot>> }
FreeTokens(h, it, count) == h \ TokenAllocs(it, count)
FreeIteration(h, it, count) == FreeTokens(FreeHead(h, it), it, count)

\* ------------------------------------------------------------ descriptors
RECURSIVE LowestFree(_, _)
LowestFree(fdt, i) ==
  IF i >= FdTableSize THEN -1
  ELSE IF fdt[i] = Closed THEN i
  ELSE LowestFree(fdt, i + 1)

Dup2(fdt, old, new) == [fdt EXCEPT ![new] = fdt[old]]
Close(fdt, fd) == [fdt EXCEPT ![fd] = Closed]

\* ------------------------------------------------------------------- Init
Init ==
  /\ pc = "start"
  /\ exit_code = Running
  /\ is_batch_mode = FALSE
  /\ fds = [i \in 0..(FdTableSize - 1) |-> IF i <= 2 THEN Tty ELSE Closed]
  /\ pending = <<>>
  /\ iter = 0
  /\ command_string = <<>>
  /\ token = [i \in 0..(MAX_NUM_ARGUMENTS - 1) |-> Uninit]
  /\ token_count = 0
  /\ heap = {CommandStringAlloc}
  /\ cwd = InitialDir
  /\ exec_at = {}
  /\ cmd_path = <<>>
  /\ child_pid = 0
  /\ children = [p \in 1..MaxPid |-> NoChild]
  /\ files = {}
  /\ log = <<>>

\* ---------------------------------------------------------------- startup
\* argc > 2: usage error; argc == 2: fopen the batch file; else interactive
StartupFailsArgcOnly(argc, fopenOk) == argc > 2
StartupFails(argc, fopenOk) == argc > 2 \/ (argc = 2 /\ ~fopenOk)

Startup ==
  /\ pc = "start"
  /\ \E argc \in 1..3, fopenOk \in BOOLEAN :
       LET calls == <<Ev(Parent, "main", <<>>, Closed, argc)>> \o
                    (IF argc = 2
                     THEN <<Ev(Parent, "fopen", <<>>, BatchFile, IF fopenOk THEN 0 ELSE -1)>>
                     ELSE <<>>)
       IN IF StartupFails(argc, fopenOk)
          THEN /\ log' = Append(calls, ErrWrite(Parent, fds))
               /\ exit_code' = 1
               /\ pc' = "done"
               /\ UNCHANGED <<is_batch_mode, fds>>
          ELSE /\ pc' = "read"
               /\ is_batch_mode' = (argc = 2)
               /\ fds' = IF argc = 2 /\ fopenOk
                         THEN [fds EXCEPT ![LowestFree(fds, 0)] = BatchFile] ELSE fds
               /\ log' = calls
               /\ UNCHANGED exit_code
  /\ UNCHANGED <<files, pending, iter, command_string, token, token_count, heap, cwd,
                 exec_at, cmd_path, child_pid, children>>

\* --------------------------------------------------------------- the loop
\* printf("msh> ") in interactive mode only
Prompt == IF is_batch_mode THEN <<>>
          ELSE <<Ev(Parent, "printf", <<"msh> ">>, fds[STDOUT_FILENO], 0)>>
InputSource == IF is_batch_mode THEN BatchFile ELSE fds[0]

\* fgets returns NULL: leave the loop, fclose, free(command_string), return 0
ReadEOF ==
  /\ pc = "read"
  /\ pending = <<>>
  /\ pc' = "done"
  /\ exit_code' = 0
  /\ fds' = IF is_batch_mode THEN [i \in 0..(FdTableSize - 1) |->
                                     IF fds[i] = BatchFile THEN Closed ELSE fds[i]]
            ELSE fds
  /\ heap' = heap \ {CommandStringAlloc}
  /\ log' = Prompt \o <<Ev(Parent, "fgets", <<>>, InputSource, -1)>>
  /\ UNCHANGED <<files, is_batch_mode, pending, iter, command_string, token, token_count,
                 cwd, exec_at, cmd_path, child_pid, children>>

\* one fgets call that returns data, the newline strip, the empty-line test,
\* strdup of the working string, the strsep loop and the zero-token test
ReadFrom(stream) ==
  \E g \in {Fgets(stream)} :
  \E cs \in {StripNewline(g.buf)} :
  \E toks \in {TokLoop(Str(cs), <<>>)} :
  \E it \in {iter + 1} :
     /\ pending' = g.rest
     /\ iter' = it
     /\ command_string' = cs
     /\ log' = Prompt \o <<Ev(Parent, "fgets", cs, InputSource, 0)>>
     /\ IF Len(cs) = 0
        THEN /\ pc' = "continue"
             /\ UNCHANGED <<token, token_count, heap>>
        ELSE /\ token' = TokenArray(toks)
             /\ token_count' = Len(toks)
             /\ IF Len(toks) = 0
                THEN /\ heap' = FreeHead(heap \cup { <<it, HeadSlot>> }, it)
                     /\ pc' = "continue"
                ELSE /\ heap' = heap \cup { <<it, HeadSlot>> } \cup TokenAllocs(it, Len(toks))
                     /\ pc' = "dispatch"
     /\ UNCHANGED <<files, exit_code, is_batch_mode, fds, cwd, exec_at, cmd_path, child_pid,
                    children>>

ReadLine ==
  /\ pc = "read"
  /\ IF pending # <<>>
     THEN ReadFrom(pending)
     ELSE /\ iter < MaxReads
          /\ \E l \in InputLines : ReadFrom(l \o <<"\n">>)

\* `continue`, or the end of the loop body: back to the top of while(1); the
\* locals declared in the body (token, token_count, cmd_path, child_pid) end
\* their lifetime
LoopBack ==
  /\ pc = "continue"
  /\ pc' = "read"
  /\ token' = [i \in 0..(MAX_NUM_ARGUMENTS - 1) |-> Uninit]
  /\ token_count' = 0
  /\ cmd_path' = <<>>
  /\ child_pid' = 0
  /\ exec_at' = {}
  /\ log' = <<>>
  /\ UNCHANGED <<files, exit_code, is_batch_mode, fds, pending, iter, command_string, heap, cwd,
                 children>>

\* --------------------------------------------------------------- built-ins
IsExitQuit(t) == t = EXIT \/ t = QUIT
IsCd(t) == t = CD
IsBuiltin(t) == IsExitQuit(t) \/ IsCd(t)

\* token_count != 1 is the usage error of exit/quit
ExitArgsOkLoose(count) == count >= 1
ExitArgsOk(count) == count = 1

\* token_count != 2 is the usage error of cd
CdArgsOkLoose(count) == count >= 2
CdArgsOk(count) == count = 2

\* chdir(dir)
Chdir(dir) == IF dir \in ValidDirs THEN 0 ELSE -1

\* exit / quit
DoExitQuit ==
  /\ pc = "dispatch"
  /\ IsExitQuit(token[0])
  /\ IF ~ExitArgsOk(token_count)
     THEN /\ log' = Append(log, ErrWrite(Parent, fds))
          /\ heap' = FreeTokens(heap, iter, token_count)
          /\ pc' = "continue"
          /\ UNCHANGED exit_code
     ELSE /\ heap' = FreeHead(heap, iter) \ {CommandStringAlloc}
          /\ exit_code' = 0
          /\ pc' = "done"
          /\ log' = Append(log, Ev(Parent, "exit", <<>>, Closed, 0))
  /\ UNCHANGED <<files, is_batch_mode, fds, pending, iter, command_string, token, token_count,
                 cwd, exec_at, cmd_path, child_pid, children>>

\* cd
DoCd ==
  /\ pc = "dispatch"
  /\ ~IsExitQuit(token[0])
  /\ IsCd(token[0])
  /\ IF ~CdArgsOk(token_count)
     THEN /\ log' = Append(log, ErrWrite(Parent, fds))
          /\ UNCHANGED cwd
     ELSE LET r == Chdir(token[1])
          IN IF r # 0
             THEN /\ log' = log \o <<Ev(Parent, "chdir", token[1], Closed, r),
                                     ErrWrite(Parent, fds)>>
                  /\ UNCHANGED cwd
             ELSE /\ log' = Append(log, Ev(Parent, "chdir", token[1], Closed, r))
                  /\ cwd' = token[1]
  /\ heap' = FreeIteration(heap, iter, token_count)
  /\ pc' = "continue"
  /\ UNCHANGED <<files, exit_code, is_batch_mode, fds, pending, iter, command_string, token,
                 token_count, exec_at, cmd_path, child_pid, children>>

\* ------------------------------------------------------------- resolution
\* snprintf(cmd_path, sizeof(cmd_path), "%s%s", path[i], token[0])
Snprintf(dir, name) ==
  LET full == dir \o name
  IN SubSeq(full, 1, Min(Len(full), MAX_PATH - 1))

\* access(cmd_path, X_OK) for candidate i, given the executable locations X
Access(i, X) == IF i \in X THEN 0 ELSE -1

\* the for loop over path[]: the calls made, found, and cmd_path on leaving it
RECURSIVE ResolveLoopNoBreak(_, _, _, _)
ResolveLoopNoBreak(i, X, name, acc) ==
  IF i > 4 THEN acc
  ELSE LET cand == Snprintf(path[i], name)
           r == Access(i, X)
           calls == Append(acc.calls, Ev(Parent, "access", cand, Closed, r))
       IN ResolveLoopNoBreak(i + 1, X, name,
            [found |-> acc.found \/ r = 0, cmd_path |-> cand, calls |-> calls])

RECURSIVE ResolveLoop(_, _, _, _)
ResolveLoop(i, X, name, acc) ==
  IF i > 4 THEN acc
  ELSE LET cand == Snprintf(path[i], name)
           r == Access(i, X)
           calls == Append(acc.calls, Ev(Parent, "access", cand, Closed, r))
       IN IF r = 0
          THEN [found |-> TRUE, cmd_path |-> cand, calls |-> calls]
          ELSE ResolveLoop(i + 1, X, name,
                 [found |-> acc.found, cmd_path |-> cand, calls |-> calls])

\* if (!found)
NotFoundIgnored(found) == FALSE
NotFound(found) == ~found

Resolve ==
  /\ pc = "dispatch"
  /\ ~IsBuiltin(token[0])
  /\ \E X \in SUBSET (1..4) :
       LET r == ResolveLoop(1, X, token[0], [found |-> FALSE, cmd_path |-> cmd_path, calls |-> <<>>])
       IN /\ exec_at' = X
          /\ cmd_path' = r.cmd_path
          /\ IF NotFound(r.found)
             THEN /\ log' = Append(log \o r.calls, ErrWrite(Parent, fds))
                  /\ heap' = FreeIteration(heap, iter, token_count)
                  /\ pc' = "continue"
             ELSE /\ log' = log \o r.calls
                  /\ pc' = "fork"
                  /\ UNCHANGED heap
  /\ UNCHANGED <<files, exit_code, is_batch_mode, fds, pending, iter, command_string, token,
                 token_count, cwd, child_pid, children>>

\* ------------------------------------------------------------------- fork
FreePids == { p \in 1..MaxPid : children[p].state = "none" }

Fork ==
  /\ pc = "fork"
  /\ \E ok \in BOOLEAN :
       IF ~ok \/ FreePids = {}
       THEN /\ log' = log \o <<Ev(Parent, "fork", <<>>, Closed, -1), ErrWrite(Parent, fds)>>
            /\ heap' = FreeIteration(heap, iter, token_count)
            /\ pc' = "continue"
            /\ UNCHANGED <<child_pid, children>>
       ELSE LET p == CHOOSE q \in FreePids : \A o \in FreePids : q <= o
            IN /\ children' = [children EXCEPT ![p] =
                                 [state |-> "branch", token |-> token, cmd_path |-> cmd_path,
                                  fds |-> fds, cwd |-> cwd, argv |-> <<>>, execv |-> "no",
                                  status |-> Running, reads |-> {}]]
               /\ child_pid' = p
               /\ log' = Append(log, Ev(Parent, "fork", <<>>, Closed, p))
               /\ pc' = "wait"
               /\ UNCHANGED heap
  /\ UNCHANGED <<files, exit_code, is_batch_mode, fds, pending, iter, command_string, token,
                 token_count, cwd, exec_at, cmd_path>>

\* ------------------------------------------------------- the child branch
\* a read of token[i]; a slot outside the array holds an indeterminate value
Slot(tok, i) == IF i \in DOMAIN tok THEN tok[i] ELSE Uninit

\* the for loop scanning token[] for ">": which exit it takes, at which i,
\* and the slots of token[] it read
RECURSIVE ScanEager(_, _, _)
ScanEager(tok, i, redirection_found) ==
  IF Slot(tok, i) = NULL \/ i >= MAX_NUM_ARGUMENTS
  THEN [kind |-> "plain", idx |-> i, reads |-> {i}]
  ELSE IF Slot(tok, i) = GT
       THEN IF redirection_found THEN [kind |-> "error", idx |-> i, reads |-> {i}]
            ELSE IF Slot(tok, i + 2) # NULL \/ Slot(tok, i + 1) = NULL
                 THEN [kind |-> "error", idx |-> i, reads |-> {i, i + 1, i + 2}]
                 ELSE [kind |-> "redirect", idx |-> i, reads |-> {i, i + 1, i + 2}]
       ELSE LET r == ScanEager(tok, i + 1, redirection_found)
            IN [r EXCEPT !.reads = @ \cup {i}]

RECURSIVE Scan(_, _, _)
Scan(tok, i, redirection_found) ==
  IF tok[i] = NULL THEN [kind |-> "plain", idx |-> i, reads |-> {i}]
  ELSE IF tok[i] = GT
       THEN IF redirection_found THEN [kind |-> "error", idx |-> i, reads |-> {i}]
            ELSE IF tok[i + 1] = NULL
                 THEN [kind |-> "error", idx |-> i, reads |-> {i, i + 1}]
                 ELSE IF tok[i + 2] # NULL
                      THEN [kind |-> "error", idx |-> i, reads |-> {i, i + 1, i + 2}]
                      ELSE [kind |-> "redirect", idx |-> i, reads |-> {i, i + 1, i + 2}]
       ELSE LET r == Scan(tok, i + 1, redirection_found)
            IN [r EXCEPT !.reads = @ \cup {i}]

\* dup2(fd, STDOUT_FILENO); dup2(fd, STDERR_FILENO); close(fd)
ApplyRedirectStdoutOnly(fdt, fd) == Close(Dup2(fdt, fd, STDOUT_FILENO), fd)
ApplyRedirect(fdt, fd) == Close(Dup2(Dup2(fdt, fd, STDOUT_FILENO), fd, STDERR_FILENO), fd)

\* the descriptor tables after open, dup2, dup2, close: the calls are made in
\* the child after fork, so only the child's own table changes
RedirectTablesShared(parentFds, childFds, fd, name) ==
  [parent |-> ApplyRedirect([parentFds EXCEPT ![fd] = File(name)], fd),
   child |-> ApplyRedirect([childFds EXCEPT ![fd] = File(name)], fd)]
RedirectTables(parentFds, childFds, fd, name) ==
  [parent |-> parentFds,
   child |-> ApplyRedirect([childFds EXCEPT ![fd] = File(name)], fd)]

\* token[i] = NULL
TrimAfter(tok, i) == [tok EXCEPT ![i + 1] = NULL]
Trim(tok, i) == [tok EXCEPT ![i] = NULL]

\* the argument vector execv reads: the slots up to the first NULL
RECURSIVE ArgvFrom(_, _)
ArgvFrom(tok, i) ==
  IF i >= MAX_NUM_ARGUMENTS \/ tok[i] = NULL THEN <<>>
  ELSE <<tok[i]>> \o ArgvFrom(tok, i + 1)

\* write the message and exit(1)
ChildFail(c) == [c EXCEPT !.state = "zombie", !.status = 1]

\* the scan, and for a well-formed ">" the open, dup2, dup2, close and trim
ChildRedirect(p) ==
  LET c0 == children[p]
      s == Scan(c0.token, 0, FALSE)
      c == [c0 EXCEPT !.reads = s.reads]
  IN /\ c0.state = "branch"
     /\ IF s.kind = "plain"
        THEN /\ children' = [children EXCEPT ![p] = [c EXCEPT !.state = "execv"]]
             /\ UNCHANGED <<log, fds, files>>
        ELSE IF s.kind = "error"
        THEN /\ children' = [children EXCEPT ![p] = ChildFail(c)]
             /\ log' = Append(log, ErrWrite(p, c.fds))
             /\ UNCHANGED <<fds, files>>
        ELSE \E openOk \in BOOLEAN :
               LET fd == IF openOk THEN LowestFree(c.fds, 0) ELSE -1
                   name == c.token[s.idx + 1]
               IN IF fd < 0
                  THEN /\ children' = [children EXCEPT ![p] = ChildFail(c)]
                       /\ log' = log \o <<Ev(p, "open", name, Closed, fd), ErrWrite(p, c.fds)>>
                       /\ UNCHANGED <<fds, files>>
                  ELSE LET t == RedirectTables(fds, c.fds, fd, name)
                       IN /\ children' = [children EXCEPT ![p] =
                                 [c EXCEPT !.state = "execv",
                                           !.fds = t.child,
                                           !.token = Trim(c.token, s.idx)]]
                          /\ fds' = t.parent
                          /\ files' = files \cup {name}
                          /\ log' = Append(log, Ev(p, "open", name, File(name), fd))
     /\ UNCHANGED <<pc, exit_code, is_batch_mode, pending, iter, command_string, token,
                    token_count, heap, cwd, exec_at, cmd_path, child_pid>>

\* execv returned -1: write the message and exit(1)
ExecvFailedFallsThrough(c) == [c EXCEPT !.state = "cleanup", !.execv = "failed"]
ExecvFailed(c) == [ChildFail(c) EXCEPT !.execv = "failed"]

\* execv(cmd_path, token)
ChildExecv(p) ==
  LET c == children[p]
      a == ArgvFrom(c.token, 0)
  IN /\ c.state = "execv"
     /\ \E ok \in BOOLEAN :
          IF ok
          THEN /\ children' = [children EXCEPT ![p] =
                    [c EXCEPT !.state = "image", !.argv = a, !.execv = "ok"]]
               /\ log' = Append(log, Ev(p, "execv", c.cmd_path, Closed, 0))
          ELSE /\ children' = [children EXCEPT ![p] = ExecvFailed([c EXCEPT !.argv = a])]
               /\ log' = log \o <<Ev(p, "execv", c.cmd_path, Closed, -1), ErrWrite(p, c.fds)>>
     /\ UNCHANGED <<files, pc, exit_code, is_batch_mode, fds, pending, iter, command_string, token,
                    token_count, heap, cwd, exec_at, cmd_path, child_pid>>

\* the loaded program terminates with some status
ImageExit(p) ==
  LET c == children[p]
  IN /\ c.state = "image"
     /\ \E st \in {0, 1} :
          children' = [children EXCEPT ![p] = [c EXCEPT !.state = "zombie", !.status = st]]
     /\ UNCHANGED <<files, pc, exit_code, is_batch_mode, fds, pending, iter, command_string, token,
                    token_count, heap, cwd, exec_at, cmd_path, child_pid, log>>

\* ------------------------------------------------------------ the parent
\* waitpid(child_pid, &status, 0) returns once that child has terminated
WaitReadyNoHang(c) == TRUE
WaitReadyStopped(c) == c.state = "stopped"
WaitReady(c) == c.state = "zombie"

\* waitpid, then free(head_ptr) and the token frees at the end of the body
Wait ==
  /\ pc = "wait"
  /\ WaitReady(children[child_pid])
  /\ children' = IF children[child_pid].state = "zombie"
                 THEN [children EXCEPT ![child_pid] = NoChild]
                 ELSE children
  /\ log' = Append(log, Ev(Parent, "waitpid", <<>>, Closed, child_pid))
  /\ heap' = FreeIteration(heap, iter, token_count)
  /\ pc' = "continue"
  /\ UNCHANGED <<files, exit_code, is_batch_mode, fds, pending, iter, command_string, token,
                 token_count, cwd, exec_at, cmd_path, child_pid>>

Next ==
  \/ Startup
  \/ ReadEOF
  \/ ReadLine
  \/ LoopBack
  \/ DoExitQuit
  \/ DoCd
  \/ Resolve
  \/ Fork
  \/ \E p \in 1..MaxPid : ChildRedirect(p)
  \/ \E p \in 1..MaxPid : ChildExecv(p)
  \/ \E p \in 1..MaxPid : ImageExit(p)
  \/ Wait

Spec == Init /\ [][Next]_vars

\* the interpreter is a sequential program that always takes its next step:
\* it reads what is left of a line, and at the end of a line it sees
\* end-of-input unless the source supplies another line; every child takes
\* its steps and terminates
\* a read that continues a physical line the previous read left unfinished
ReadPending ==
  /\ pc = "read"
  /\ pending # <<>>
  /\ ReadFrom(pending)

LiveSpec ==
  /\ Spec
  /\ WF_vars(Startup)
  /\ WF_vars(ReadEOF)
  /\ WF_vars(ReadPending)
  /\ WF_vars(LoopBack \/ DoExitQuit \/ DoCd \/ Resolve \/ Fork \/ Wait)
  /\ \A p \in 1..MaxPid : WF_vars(ChildRedirect(p) \/ ChildExecv(p) \/ ImageExit(p))

\* ================================================================ claims
PerIteration(h) == { a \in h : a[1] >= 1 }
ErrorsBy(l, who) == { i \in 1..Len(l) : l[i].op = "write" /\ l[i].arg = error_message /\ l[i].who = who }
Errors(l) == { i \in 1..Len(l) : l[i].op = "write" /\ l[i].arg = error_message }
Live == { p \in 1..MaxPid : children[p].state # "none" }

\* C1: whenever the interpreter is about to read a line, the working-string
\* copy and every token of every earlier iteration have been released.
C1_NoLeakAcrossIterations ==
  pc = "read" => PerIteration(heap) = {}

\* C2: a child handed a malformed redirection (">" last, ">" followed by
\* more than one token, or more than one ">") never reaches execv; it
\* reports the error and exits non-zero.
GtAt(t) == { i \in 1..Len(t) : t[i] = GT }
Malformed(t) ==
  \/ \E i \in GtAt(t) : i = Len(t) \/ i < Len(t) - 1
  \/ Cardinality(GtAt(t)) > 1
C2_MalformedNeverLoads ==
  \A p \in Live :
    Malformed(Toks) =>
      /\ children[p].state \in {"branch", "zombie"}
      /\ children[p].execv = "no"
      /\ children[p].state = "zombie" =>
           (children[p].status = 1 /\ Cardinality(ErrorsBy(log, p)) = 1)

\* C3: exit/quit with one token terminates with code 0 and nothing more is
\* read; with more tokens it reports the error once, does not terminate and
\* goes on to the next line.
C3_ExitQuit ==
  [][ /\ (pc = "dispatch" /\ IsExitQuit(token[0])) =>
           IF token_count = 1
           THEN /\ pc' = "done" /\ exit_code' = 0
                /\ iter' = iter /\ pending' = pending
                /\ Errors(log') = {}
           ELSE /\ pc' = "continue" /\ exit_code' = Running
                /\ Cardinality(Errors(log')) = 1
      /\ pc = "continue" => (pc' = "read" /\ exit_code' = Running)
      /\ pc = "done" => (iter' = iter /\ pc' = "done")
    ]_vars
C3_Witness ==
  /\ pc = "done" /\ exit_code = 0 /\ is_batch_mode
  /\ token_count = 1 /\ IsExitQuit(token[0])
  /\ iter < MaxReads

\* C4: cd with two tokens and a valid directory changes the working
\* directory to it; with an invalid directory it reports the error and the
\* directory is unchanged; with any other token count it reports the error
\* without calling chdir. The loop continues in all three cases.
ChdirCalls(l) == { i \in 1..Len(l) : l[i].op = "chdir" }
C4_Cd ==
  [][ (pc = "dispatch" /\ token[0] = CD) =>
        /\ pc' = "continue" /\ exit_code' = Running
        /\ IF token_count = 2
           THEN IF token[1] \in ValidDirs
                THEN cwd' = token[1] /\ Errors(log') = {}
                ELSE cwd' = cwd /\ Cardinality(Errors(log')) = 1
           ELSE /\ cwd' = cwd /\ Cardinality(Errors(log')) = 1
                /\ ChdirCalls(log') = {}
    ]_vars
C4_Witness ==
  /\ pc = "continue" /\ token[0] = CD /\ token_count = 2
  /\ cwd = token[1] /\ cwd # InitialDir

\* C5: a child is created only for a non-built-in whose resolution found a
\* candidate; a built-in never resolves or forks; a command found nowhere
\* creates no child and reports the error.
AccessOk(l) == { i \in 1..Len(l) : l[i].op = "access" /\ l[i].res = 0 }
Created == \E p \in 1..MaxPid : children[p].state = "none" /\ children'[p].state # "none"
C5_ChildOnlyIfResolved ==
  [][ /\ Created =>
           (~IsBuiltin(token[0]) /\ exec_at # {} /\ AccessOk(log) # {})
      /\ (pc = "dispatch" /\ IsBuiltin(token[0])) =>
           (children' = children /\ pc' \in {"continue", "done"}
            /\ \A i \in 1..Len(log') : log'[i].op \notin {"access", "fork"})
      /\ (pc = "dispatch" /\ ~IsBuiltin(token[0]) /\ exec_at' = {}) =>
           (children' = children /\ pc' = "continue"
            /\ Cardinality(Errors(log')) = 1)
    ]_vars
C5_Witness ==
  /\ pc = "wait" /\ Live = {child_pid}
  /\ exec_at = {4} /\ ~IsBuiltin(token[0])

\* C6: the candidates are tested in the order /bin/, /usr/bin/,
\* /usr/local/bin/, ./ and the path given to execv is the first of them that
\* is executable.
ExpectedDirs == <<  <<"/", "b", "i", "n", "/">>,
                    <<"/", "u", "s", "r", "/", "b", "i", "n", "/">>,
                    <<"/", "u", "s", "r", "/", "l", "o", "c", "a", "l", "/", "b", "i", "n", "/">>,
                    <<".", "/">>  >>
IsAccess(e) == e.op = "access"
IsExecv(e) == e.op = "execv"
FirstOf(X) == CHOOSE i \in X : \A j \in X : i <= j
C6_ResolutionOrder ==
  LET calls == SelectSeq(log, IsAccess)
      execs == SelectSeq(log, IsExecv)
  IN /\ calls # <<>> =>
          /\ Len(calls) = (IF exec_at = {} THEN 4 ELSE FirstOf(exec_at))
          /\ \A i \in 1..Len(calls) :
               /\ calls[i].arg = ExpectedDirs[i] \o token[0]
               /\ calls[i].res = (IF i \in exec_at THEN 0 ELSE -1)
          /\ exec_at # {} => cmd_path = ExpectedDirs[FirstOf(exec_at)] \o token[0]
     /\ \A i \in 1..Len(execs) :
          /\ exec_at # {}
          /\ execs[i].arg = ExpectedDirs[FirstOf(exec_at)] \o token[0]
C6_Witness ==
  /\ exec_at = {2, 4}
  /\ \E p \in Live : children[p].execv = "ok"
                     /\ children[p].cmd_path = ExpectedDirs[2] \o LS

\* C7: at most one child exists at any moment; outside the wait no child
\* exists; while waiting the one child is the one forked in this iteration,
\* and each iteration forks at most once.
ForksOk(l) == { i \in 1..Len(l) : l[i].op = "fork" /\ l[i].res > 0 }
C7_OneChild ==
  /\ Cardinality(Live) <= 1
  /\ pc # "wait" => Live = {}
  /\ pc = "wait" => (Live = {child_pid} /\ Cardinality(ForksOk(log)) = 1)
  /\ Cardinality(ForksOk(log)) <= 1
C7_Witness ==
  /\ pc = "continue" /\ Live = {}
  /\ \E i \in 1..Len(log) : log[i].op = "waitpid"
  /\ Cardinality(ForksOk(log)) = 1

\* C8: a child is only ever in the branch, at execv, running the loaded
\* program, or terminated; one that terminated without loading the program
\* exited with status 1 after one error message; the loop's calls are made by
\* the interpreter only.
C8_ChildNeverLoops ==
  /\ \A p \in 1..MaxPid :
       LET c == children[p]
       IN /\ c.state \in {"none", "branch", "execv", "image", "zombie"}
          /\ c.state = "image" => c.execv = "ok"
          /\ (c.state = "zombie" /\ c.execv # "ok") =>
               (c.status = 1 /\ Cardinality(ErrorsBy(log, p)) = 1)
  /\ \A i \in 1..Len(log) :
       log[i].op \in {"fgets", "printf", "waitpid", "fork", "access", "chdir"}
         => log[i].who = Parent
C8_Witness ==
  \E p \in Live : children[p].state = "zombie" /\ children[p].execv = "failed"

\* C9: with ">" as the second-to-last token the argument vector given to
\* execv is the tokens before ">", NULL-terminated, and descriptors 1 and 2
\* of the child both refer to the target file; with no ">" the argument
\* vector is the whole token sequence and the streams are the inherited ones.
C9_RedirectedArgv ==
  \A p \in Live :
    LET c == children[p]
        n == token_count
    IN c.execv # "no" =>
         /\ (n >= 2 /\ Toks[n - 1] = GT) =>
              /\ c.argv = SubSeq(Toks, 1, n - 2)
              /\ c.token[n - 2] = NULL
              /\ c.fds[STDOUT_FILENO] = File(Toks[n])
              /\ c.fds[STDERR_FILENO] = File(Toks[n])
         /\ GtAt(Toks) = {} =>
              /\ c.argv = Toks
              /\ c.token[n] = NULL
              /\ c.fds[STDOUT_FILENO] = fds[STDOUT_FILENO]
              /\ c.fds[STDERR_FILENO] = fds[STDERR_FILENO]
C9_Witness ==
  \E p \in Live :
    /\ children[p].execv = "ok"
    /\ token_count = 4 /\ Toks[3] = GT
    /\ children[p].argv = <<LS, <<"-", "l">> >>
    /\ children[p].fds[STDERR_FILENO] = File(F)

\* C10: the tokenizer yields the first min(k, 11) of the k non-empty
\* space/tab-delimited fragments of the line, in order, each whole, followed
\* by the NULL sentinel.
Blank == {" ", "\t"}
Starts(s) == { i \in 1..Len(s) : s[i] \notin Blank /\ (i = 1 \/ s[i - 1] \in Blank) }
EndOf(s, i) == CHOOSE j \in i..Len(s) :
                 /\ (j = Len(s) \/ s[j + 1] \in Blank)
                 /\ \A k \in i..j : s[k] \notin Blank
Fragments(s) ==
  LET st == Starts(s)
  IN [k \in 1..Cardinality(st) |->
        LET i == CHOOSE x \in st : Cardinality({ y \in st : y <= x }) = k
        IN SubSeq(s, i, EndOf(s, i))]
C10_Tokenizer ==
  [][ (iter' # iter /\ command_string' # <<>>) =>
        LET fr == Fragments(command_string')
            m == Min(Len(fr), 11)
        IN /\ token_count' = m
           /\ \A i \in 1..m : token'[i - 1] = fr[i]
           /\ token'[m] = NULL
    ]_vars
C10_Witness ==
  /\ pc = "dispatch" /\ token_count = 11
  /\ Len(Fragments(command_string)) > 11
  /\ \E i \in 1..(Len(command_string) - 1) :
       command_string[i] \in Blank /\ command_string[i + 1] \in Blank

\* C11: a line that is empty or holds only spaces and tabs sends the loop
\* back to the next read with no built-in, no resolution, no error and no
\* child; interactive mode prompts again before that read.
AllBlank(s) == \A i \in 1..Len(s) : s[i] \in Blank
C11_BlankLineSkipped ==
  [][ /\ (iter' # iter /\ AllBlank(command_string')) =>
           /\ pc' = "continue"
           /\ \A i \in 1..Len(log') : log'[i].op \in {"printf", "fgets"}
           /\ children' = children /\ cwd' = cwd /\ exit_code' = Running
           /\ PerIteration(heap') = PerIteration(heap)
      /\ (pc = "continue" /\ AllBlank(command_string) /\ log' # log) =>
           (pc' = "read" /\ log' = <<>> /\ children' = children /\ cwd' = cwd)
      /\ (pc = "read" /\ iter' # iter /\ ~is_batch_mode) =>
           (log'[1].op = "printf" /\ log'[1].arg = <<"msh> ">>)
    ]_vars
C11_Witness ==
  /\ pc = "continue" /\ iter = 1
  /\ Len(command_string) = 3 /\ AllBlank(command_string)
  /\ token_count = 0 /\ token[0] = NULL

\* C12: the exit status is non-zero only after a startup error (more than
\* one argument, or a batch file that does not open), before any line is
\* read; once the loop is entered the status stays undetermined until it
\* becomes 0.
C12_ExitStatus ==
  [][ /\ pc = "start" =>
           LET argc == log'[1].res
               fopenFailed == \E i \in 1..Len(log') : log'[i].op = "fopen" /\ log'[i].res # 0
           IN IF argc >= 3 \/ fopenFailed
              THEN pc' = "done" /\ exit_code' = 1 /\ iter' = 0
              ELSE pc' = "read" /\ exit_code' = Running
      /\ pc # "start" =>
           (exit_code = Running /\ exit_code' \in {Running, 0}
            /\ (exit_code' = 0 <=>
                  \/ (pc = "read" /\ pending = <<>> /\ iter' = iter)
                  \/ (pc = "dispatch" /\ IsExitQuit(token[0]) /\ token_count = 1)))
    ]_vars
C12_Witness ==
  /\ pc = "done" /\ exit_code = 1 /\ iter = 0
  /\ \E i \in 1..Len(log) : log[i].op = "fopen" /\ log[i].res = -1

\* C13: an iteration in which a recoverable failure happened has written the
\* fixed message exactly once, through descriptor 2 of the failing process,
\* and an iteration without one has written none; the interpreter then goes
\* on to the next read.
HasEvent(l, op, res) == \E i \in 1..Len(l) : l[i].op = op /\ l[i].res = res
Called(l, op) == \E i \in 1..Len(l) : l[i].op = op
Failure ==
  \/ (IsExitQuit(token[0]) /\ token_count # 1)
  \/ (token[0] = CD /\ token_count # 2)
  \/ HasEvent(log, "chdir", -1)
  \/ (Called(log, "access") /\ ~HasEvent(log, "access", 0))
  \/ HasEvent(log, "fork", -1)
  \/ HasEvent(log, "open", -1)
  \/ (ForksOk(log) # {} /\ ~Called(log, "open") /\ ~Called(log, "execv"))
  \/ HasEvent(log, "execv", -1)
Writes(l) == { i \in 1..Len(l) : l[i].op = "write" }
C14_ExitReleasesIteration ==
  (pc = "done" /\ token_count = 1 /\ IsExitQuit(token[0])) =>
     PerIteration(heap) = {}

\* C15: the interpreter eventually terminates; a termination from inside the
\* loop is with status 0; end-of-input leads straight to termination with no
\* dispatch.
C15_Terminates ==
  /\ <>(pc = "done")
  /\ [][ (pc # "start" /\ pc' = "done") => exit_code' = 0 ]_vars
  /\ [][ (pc = "read" /\ iter' = iter) =>
           (pc' = "done" /\ exit_code' = 0 /\ log'[Len(log')].res = -1
            /\ ~Called(log', "access") /\ ~Called(log', "fork")
            /\ ~Called(log', "chdir") /\ children' = children /\ cwd' = cwd) ]_vars
C15_Witness ==
  /\ pc = "done" /\ exit_code = 0
  /\ iter >= 2
  /\ Len(log) >= 1 /\ log[Len(log)].op = "fgets" /\ log[Len(log)].res = -1

\* C16: the interpreter's working directory changes only in the step of a
\* two-token cd whose chdir succeeds, and then to that directory; a child is
\* created with the interpreter's working directory of that moment and keeps
\* it up to the program load.
C16_CwdFrame ==
  [][ /\ cwd' # cwd =>
           (pc = "dispatch" /\ token[0] = CD /\ token_count = 2
            /\ token[1] \in ValidDirs /\ cwd' = token[1]
            /\ HasEvent(log', "chdir", 0))
      /\ \A p \in 1..MaxPid :
           /\ (children[p].state = "none" /\ children'[p].state # "none") =>
                (children'[p].cwd = cwd /\ cwd' = cwd)
           /\ (children[p].state # "none" /\ children'[p].state # "none") =>
                (children'[p].cwd = children[p].cwd /\ cwd' = cwd)
    ]_vars
C16_Witness ==
  /\ cwd = <<"/", "d">>
  /\ \E p \in Live : children[p].state = "image" /\ children[p].cwd = <<"/", "d">>

\* C17: descriptors 0, 1 and 2 of the interpreter always refer to its
\* original streams; everything the interpreter writes goes to them; every
\* child starts with them, and a child whose tokens hold no ">" loads its
\* program with them, also after an earlier command was redirected to a file.
C17_ParentStreamsKept ==
  /\ \A d \in 0..2 : fds[d] = Tty
  /\ \A i \in 1..Len(log) :
       (log[i].who = Parent /\ log[i].op \in {"write", "printf"}) => log[i].tgt = Tty
  /\ \A p \in Live :
       LET c == children[p]
       IN (c.state = "branch" \/ GtAt(Toks) = {}) =>
            (c.fds[STDOUT_FILENO] = Tty /\ c.fds[STDERR_FILENO] = Tty)
C17_Witness ==
  /\ files # {}
  /\ GtAt(Toks) = {}
  /\ \E p \in Live : children[p].execv = "ok" /\ children[p].fds[STDOUT_FILENO] = Tty

\* C18: for 1 to 11 tokens the sentinel is written inside the 12-slot array,
\* and the redirection scan reads only slots 0..11, none of them beyond the
\* sentinel and none of them unwritten.
C18_ScanReadsInBounds ==
  /\ pc \in {"dispatch", "fork", "wait"} =>
       /\ token_count \in 1..11
       /\ token[token_count] = NULL
       /\ \A i \in 0..(token_count - 1) : token[i] # NULL /\ token[i] # Uninit
  /\ \A p \in Live :
       children[p].state # "branch" =>
         /\ children[p].reads # {}
         /\ \A r \in children[p].reads :
              /\ r \in 0..11
              /\ r <= token_count
              /\ token[r] # Uninit
C18_Witness ==
  \E p \in Live :
    /\ token_count = 11 /\ token[9] = GT
    /\ children[p].reads = 0..11
    /\ children[p].execv = "ok"

NL == <<"\n">>
C20_LongLineChunks ==
  [][ iter' # iter =>
        /\ Len(command_string') <= 254
        /\ pending' # <<>> => Len(command_string') = 254
        /\ IF pending # <<>>
           THEN pending \in {command_string' \o NL \o pending', command_string' \o pending'}
           ELSE \E l \in InputLines :
                  l \o NL \in {command_string' \o NL \o pending', command_string' \o pending'}
        /\ Errors(log') = {}
        /\ pc' = (IF AllBlank(command_string') THEN "continue" ELSE "dispatch")
    ]_vars
C20_Witness ==
  /\ pc = "dispatch" /\ iter = 2
  /\ command_string = <<"x", "i", "t">>
  /\ token_count = 1
====
